---- MODULE Spec2Model ----
(***************************************************************************)
(* Model of ps3_circuit2.py: the wire layer, the range index (the list     *)
(* `data` and the binary search tree `bst_data` it keeps side by side),    *)
(* and the sweep of CrossVerifier over the sorted event list.              *)
(*                                                                         *)
(* Two specifications share the variables:                                 *)
(*   Spec      builds a layer with add_wire, constructs CrossVerifiers     *)
(*             over it and runs their sweeps one event at a time;          *)
(*   SpecIndex drives a RangeIndex directly with add/remove/list/count     *)
(*             on arbitrary keys;                                          *)
(*   SpecTraced is Spec with a TracedCrossVerifier in place of the         *)
(*             CrossVerifier;                                              *)
(*   SpecSweep reads a layer of four wires with from_file and sweeps it;   *)
(*   SpecRange drives a RangeIndex with add and list only.                 *)
(***************************************************************************)
EXTENDS Integers, Sequences, FiniteSets, TLC

VARIABLES
  wires,      \* WireLayer.wires: the values of the dict, in insertion order
  next_id,    \* Wire._next_id
  eng,        \* the CrossVerifier: "none" | "new" | "run" | "done" | "raised"
  events,     \* CrossVerifier.events
  performed,  \* CrossVerifier.performed
  mode,       \* count_only of the running sweep: "count" | "list" | "-"
  pos,        \* index (1-based) of the next event of the loop in _compute_crossings
  data,       \* RangeIndex.data
  bst,        \* RangeIndex.bst_data (the tree under BSTree.root)
  count,      \* the integer result of a count_only sweep
  crossings,  \* ResultSet.crossings
  ret,        \* what the last operation returned or raised
  traced,     \* the verifier is a TracedCrossVerifier
  trace,      \* TracedCrossVerifier.trace
  hist        \* history kept for the properties (never read by the operations)

vars == <<wires, next_id, eng, events, performed, mode, pos, data, bst,
          count, crossings, ret, traced, trace, hist>>

\* ret before any operation.  The results of different operations differ in
\* the kind of their val (a number, a name, a list); TLC compares two records
\* field by field, in the order in which the field names first occur in the
\* module, and must find them different in op before it comes to val: this
\* definition is the first to name the fields
NoRet == [op |-> "-", status |-> "-", val |-> 0]

(***************************************************************************)
(* Bounds of the model.                                                    *)
(***************************************************************************)
\* the coordinates of the wires range over 0 .. MaxCoord
MaxCoord == 1
\* SpecIndex: RangeIndex.add is called at most MaxData times
MaxData == 4
\* SpecIndex: the keys are (y, wire_id) with y in 0 .. MaxKey, wire_id in 0 .. MaxWid
MaxKey == 1
MaxWid == 1
\* SpecRange: list is called on indexes of at most MaxRange keys
MaxRange == 3

Coords == 0 .. MaxCoord
\* the wire names, in lexicographic order
NameOrder == <<"a", "b", "c", "d">>
\* add_wire does not advance Wire._next_id past MaxId: one construction per
\* name of Names (a construction that fails has drawn its id too)
MaxId == Len(NameOrder) - 1
\* add_wire is called with the first MaxId names (a layer holds each at most
\* once); the last name is used by the files of from_file only
Names == {NameOrder[i] : i \in 1 .. MaxId}

(***************************************************************************)
(* Wire                                                                    *)
(***************************************************************************)
Min2(a, b) == IF a > b THEN b ELSE a
Max2(a, b) == IF a > b THEN a ELSE b

\* a constructor that stores the endpoints in the order they were given
Wire_init_as_given(name, x1, y1, x2, y2, id) ==
  [name |-> name, x1 |-> x1, y1 |-> y1, x2 |-> x2, y2 |-> y2, object_id |-> id]

\* the fields Wire.__init__ stores: endpoints normalised, object_id drawn
Wire_init(name, x1, y1, x2, y2, id) ==
  [name |-> name, x1 |-> Min2(x1, x2), y1 |-> Min2(y1, y2),
   x2 |-> Max2(x1, x2), y2 |-> Max2(y1, y2), object_id |-> id]

is_horizontal(w) == w.y1 = w.y2
is_vertical(w) == w.x1 = w.x2

\* an intersects that takes self for the horizontal wire of the two
Wire_intersects_self_h(self, other_wire) ==
  IF is_horizontal(self) = is_horizontal(other_wire) THEN FALSE
  ELSE LET h == self
           v == other_wire
       IN  v.y1 <= h.y1 /\ h.y1 <= v.y2 /\ h.x1 <= v.x1 /\ v.x1 <= h.x2

Wire_intersects(self, other_wire) ==
  IF is_horizontal(self) = is_horizontal(other_wire) THEN FALSE
  ELSE LET h == IF is_horizontal(self) THEN self ELSE other_wire
           v == IF is_horizontal(self) THEN other_wire ELSE self
       IN  v.y1 <= h.y1 /\ h.y1 <= v.y2 /\ h.x1 <= v.x1 /\ v.x1 <= h.x2

(***************************************************************************)
(* KeyWirePair and its comparison operators                                *)
(***************************************************************************)
KeyWirePair(key, wire) == [key |-> key, wire_id |-> wire.object_id, wire |-> wire]
\* a low sentinel that sorts above the first wire created
KeyWirePairL_one(key) == [key |-> key, wire_id |-> 1]
KeyWirePairL(key) == [key |-> key, wire_id |-> -1000000000]
\* a high sentinel that sorts below the real keys of its y
KeyWirePairH_low(key) == [key |-> key, wire_id |-> -1000000000]
KeyWirePairH(key) == [key |-> key, wire_id |-> 1000000000]

KWP_lt(a, b) == a.key < b.key \/ (a.key = b.key /\ a.wire_id < b.wire_id)
KWP_le(a, b) == a.key < b.key \/ (a.key = b.key /\ a.wire_id <= b.wire_id)
KWP_gt(a, b) == a.key > b.key \/ (a.key = b.key /\ a.wire_id > b.wire_id)
KWP_eq(a, b) == a.key = b.key /\ a.wire_id = b.wire_id
KWP_ne(a, b) == a.key # b.key \/ a.wire_id # b.wire_id

(***************************************************************************)
(* BST_Node_KWP and BSTree.  A tree is <<>> (None) or <<key, left, right>>. *)
(***************************************************************************)
Nil == <<>>
Node(k, l, r) == <<k, l, r>>
KeyOf(t) == t[1]
Left(t) == t[2]
Right(t) == t[3]

RECURSIVE BST_Node_insert(_, _)
BST_Node_insert(t, kwp) ==
  IF KWP_eq(KeyOf(t), kwp) THEN t
  ELSE IF KWP_gt(KeyOf(t), kwp)
       THEN IF Left(t) # Nil
            THEN Node(KeyOf(t), BST_Node_insert(Left(t), kwp), Right(t))
            ELSE Node(KeyOf(t), Node(kwp, Nil, Nil), Right(t))
       ELSE IF Right(t) # Nil
            THEN Node(KeyOf(t), Left(t), BST_Node_insert(Right(t), kwp))
            ELSE Node(KeyOf(t), Left(t), Node(kwp, Nil, Nil))

BSTree_insert(t, key) ==
  IF t # Nil THEN BST_Node_insert(t, key) ELSE Node(key, Nil, Nil)

\* the search loop of BSTree.remove: does it stop on a node (TRUE) or on None
RECURSIVE BST_locate(_, _)
BST_locate(t, kwp) ==
  IF t = Nil THEN FALSE
  ELSE IF ~KWP_ne(KeyOf(t), kwp) THEN TRUE
  ELSE IF KWP_lt(kwp, KeyOf(t)) THEN BST_locate(Left(t), kwp)
  ELSE BST_locate(Right(t), kwp)

\* an unlink that, when delNode is the right child of the node that took its
\* key, cuts the link to delNode without keeping delNode.rightChild
BST_unlink_cut(p, d) ==
  IF Right(d) # Nil
  THEN IF KWP_gt(KeyOf(p), KeyOf(d)) THEN Node(KeyOf(p), Right(d), Right(p))
       ELSE IF KWP_lt(KeyOf(p), KeyOf(d)) THEN Node(KeyOf(p), Left(p), Right(d))
       ELSE Node(KeyOf(p), Left(p), Nil)
  ELSE IF KWP_lt(KeyOf(d), KeyOf(p)) THEN Node(KeyOf(p), Nil, Right(p))
       ELSE Node(KeyOf(p), Left(p), Nil)

\* lines 300-312 applied to delNodeParent p (its key already read after the
\* overwrite of node.kwp_key) and delNode d
BST_unlink(p, d) ==
  IF Right(d) # Nil
  THEN IF KWP_gt(KeyOf(p), KeyOf(d)) THEN Node(KeyOf(p), Right(d), Right(p))
       ELSE IF KWP_lt(KeyOf(p), KeyOf(d)) THEN Node(KeyOf(p), Left(p), Right(d))
       ELSE p
  ELSE IF KWP_lt(KeyOf(d), KeyOf(p)) THEN Node(KeyOf(p), Nil, Right(p))
       ELSE Node(KeyOf(p), Left(p), Nil)

\* the lowest leftChild below t (delNode), t # Nil
RECURSIVE BST_leftmost(_)
BST_leftmost(t) == IF Left(t) # Nil THEN BST_leftmost(Left(t)) ELSE t

\* p has a leftChild: walk down to delNodeParent and unlink delNode there
RECURSIVE BST_unlink_leftmost(_)
BST_unlink_leftmost(p) ==
  IF Left(Left(p)) # Nil
  THEN Node(KeyOf(p), BST_unlink_leftmost(Left(p)), Right(p))
  ELSE BST_unlink(p, Left(p))

\* cases 2-5 of BSTree.remove on the node found; the value is the subtree that
\* takes the node's place under its parent (or under BSTree.root)
BST_remove_node(node) ==
  IF Left(node) = Nil /\ Right(node) = Nil THEN Nil
  ELSE IF Left(node) # Nil /\ Right(node) = Nil THEN Left(node)
  ELSE IF Left(node) = Nil /\ Right(node) # Nil THEN Right(node)
  ELSE LET delNode == BST_leftmost(Right(node))
           n1 == Node(KeyOf(delNode), Left(node), Right(node))
       IN  IF Left(Right(node)) = Nil
           THEN BST_unlink(n1, delNode)
           ELSE Node(KeyOf(n1), Left(n1), BST_unlink_leftmost(Right(n1)))

\* the tree after BSTree.remove found its node; the parent's link that is set
\* is chosen by kwp < parent.kwp_key, the test the search loop descended by
RECURSIVE BST_remove_found(_, _)
BST_remove_found(t, kwp) ==
  IF ~KWP_ne(KeyOf(t), kwp) THEN BST_remove_node(t)
  ELSE IF KWP_lt(kwp, KeyOf(t))
       THEN Node(KeyOf(t), BST_remove_found(Left(t), kwp), Right(t))
       ELSE Node(KeyOf(t), Left(t), BST_remove_found(Right(t), kwp))

\* BSTree.remove: the print of node.kwp_key on line 249 raises AttributeError
\* when the search ended on None, before the "not found" case is reached
BSTree_remove(t, kwp) ==
  IF BST_locate(t, kwp)
  THEN [tree |-> BST_remove_found(t, kwp), status |-> "returned", val |-> TRUE]
  ELSE [tree |-> t, status |-> "AttributeError", val |-> FALSE]

RECURSIVE node_list(_)
node_list(t) ==
  IF t = Nil THEN <<>>
  ELSE node_list(Left(t)) \o <<KeyOf(t)>> \o node_list(Right(t))

(***************************************************************************)
(* RangeIndex                                                              *)
(***************************************************************************)
RangeIndex_add(d, t, key) == [data |-> Append(d, key), bst |-> BSTree_insert(t, key)]

\* RangeIndex.remove only calls bst_data.remove; data is left alone
RangeIndex_remove(d, t, key) ==
  LET r == BSTree_remove(t, key)
  IN  [data |-> d, bst |-> r.tree, status |-> r.status]

InRange(first_key, key, last_key) == KWP_le(first_key, key) /\ KWP_le(key, last_key)

RECURSIVE RangeIndex_list(_, _, _)
RangeIndex_list(d, first_key, last_key) ==
  IF d = <<>> THEN <<>>
  ELSE (IF InRange(first_key, Head(d), last_key) THEN <<Head(d)>> ELSE <<>>)
       \o RangeIndex_list(Tail(d), first_key, last_key)

RECURSIVE RangeIndex_count(_, _, _)
RangeIndex_count(d, first_key, last_key) ==
  IF d = <<>> THEN 0
  ELSE (IF InRange(first_key, Head(d), last_key) THEN 1 ELSE 0)
       + RangeIndex_count(Tail(d), first_key, last_key)

(***************************************************************************)
(* ResultSet                                                               *)
(***************************************************************************)
\* Python's sorted() of two names: the position in NameOrder decides
NameRank(n) == CHOOSE i \in 1 .. Len(NameOrder) : NameOrder[i] = n
sorted2(n1, n2) == IF NameRank(n2) < NameRank(n1) THEN <<n2, n1>> ELSE <<n1, n2>>

\* a result set that stores the names in the order of the arguments
ResultSet_add_crossing_unsorted(cr, wire1, wire2) == Append(cr, <<wire1.name, wire2.name>>)

ResultSet_add_crossing(cr, wire1, wire2) == Append(cr, sorted2(wire1.name, wire2.name))

(***************************************************************************)
(* TracedRangeIndex and TracedResultSet: each appends to the trace and     *)
(* calls the method of its base class                                      *)
(***************************************************************************)
KeyNames(kwps) == [i \in 1 .. Len(kwps) |-> kwps[i].wire.name]

TracedRangeIndex_add(tr, d, t, key) ==
  LET r == RangeIndex_add(d, t, key)
  IN  [trace |-> Append(tr, [type |-> "add", id |-> key.wire.name]),
       data |-> r.data, bst |-> r.bst]

TracedRangeIndex_remove(tr, d, t, key) ==
  LET r == RangeIndex_remove(d, t, key)
  IN  [trace |-> Append(tr, [type |-> "delete", id |-> key.wire.name]),
       data |-> r.data, bst |-> r.bst, status |-> r.status]

TracedRangeIndex_list(tr, d, first_key, last_key) ==
  LET result == RangeIndex_list(d, first_key, last_key)
  IN  [trace |-> Append(tr, [type |-> "list", from |-> first_key.key,
                             to |-> last_key.key, ids |-> KeyNames(result)]),
       val |-> result]

\* a traced result set that writes the trace and records nothing
TracedResultSet_add_crossing_trace_only(tr, cr, wire1, wire2) ==
  [trace |-> Append(tr, [type |-> "crossing", id1 |-> wire1.name, id2 |-> wire2.name]),
   crossings |-> cr]

TracedResultSet_add_crossing(tr, cr, wire1, wire2) ==
  [trace |-> Append(tr, [type |-> "crossing", id1 |-> wire1.name, id2 |-> wire2.name]),
   crossings |-> ResultSet_add_crossing(cr, wire1, wire2)]

(***************************************************************************)
(* CrossVerifier: the event list                                           *)
(***************************************************************************)
\* the events one wire contributes, in the order they are appended
\* the delete of a horizontal wire ranked before the queries of its x
WireEvents_delete_first(wire) ==
  IF is_horizontal(wire)
  THEN << [x |-> wire.x1, rank |-> 1, id |-> wire.object_id, type |-> "add", wire |-> wire],
          [x |-> wire.x2, rank |-> 0, id |-> wire.object_id, type |-> "delete", wire |-> wire] >>
  ELSE << [x |-> wire.x1, rank |-> 2, id |-> wire.object_id, type |-> "query", wire |-> wire] >>

WireEvents(wire) ==
  IF is_horizontal(wire)
  THEN << [x |-> wire.x1, rank |-> 0, id |-> wire.object_id, type |-> "add", wire |-> wire],
          [x |-> wire.x2, rank |-> 2, id |-> wire.object_id, type |-> "delete", wire |-> wire] >>
  ELSE << [x |-> wire.x1, rank |-> 1, id |-> wire.object_id, type |-> "query", wire |-> wire] >>

RECURSIVE events_from_layer(_)
events_from_layer(ws) ==
  IF ws = <<>> THEN <<>> ELSE WireEvents(Head(ws)) \o events_from_layer(Tail(ws))

\* a comparison that looks at the object_id first
EventLess_id_first(a, b) ==
  \/ a.id < b.id
  \/ a.id = b.id /\ a.x < b.x
  \/ a.id = b.id /\ a.x = b.x /\ a.rank < b.rank

\* Python's comparison of the event lists [x, rank, object_id, type, wire]:
\* object_id is unique per wire and rank per event of a wire, so the
\* comparison is decided by the first three items
EventLess(a, b) ==
  \/ a.x < b.x
  \/ a.x = b.x /\ a.rank < b.rank
  \/ a.x = b.x /\ a.rank = b.rank /\ a.id < b.id

\* self.events after _events_from_layer and self.events.sort()
SortedEvents(ws) == SortSeq(events_from_layer(ws), EventLess)

\* cross_wires of one query event: the listed candidates the wire intersects
RECURSIVE CrossWires(_, _)
CrossWires(wire, kwps) ==
  IF kwps = <<>> THEN <<>>
  ELSE (IF Wire_intersects(wire, Head(kwps).wire) THEN <<Head(kwps).wire>> ELSE <<>>)
       \o CrossWires(wire, Tail(kwps))

\* result.add_crossing(wire, cross_wire) for each cross_wire in turn
RECURSIVE AddCrossings(_, _, _)
AddCrossings(cr, wire, cws) ==
  IF cws = <<>> THEN cr
  ELSE AddCrossings(ResultSet_add_crossing(cr, wire, Head(cws)), wire, Tail(cws))

\* the same loop on a TracedResultSet
RECURSIVE TracedAddCrossings(_, _, _, _)
TracedAddCrossings(tr, cr, wire, cws) ==
  IF cws = <<>> THEN [trace |-> tr, crossings |-> cr]
  ELSE LET r == TracedResultSet_add_crossing(tr, cr, wire, Head(cws))
       IN  TracedAddCrossings(r.trace, r.crossings, wire, Tail(cws))

\* trace_sweep_line: a no-op in CrossVerifier, overridden in TracedCrossVerifier
trace_sweep_line(is_traced, tr, x) ==
  IF is_traced THEN Append(tr, [type |-> "sweep", x |-> x]) ELSE tr

\* a count of the queries that found a crossing, not of the crossings
CountResult_per_query(result, cws) == result + (IF cws = <<>> THEN 0 ELSE 1)

\* result += len(cross_wires)
CountResult(result, cws) == result + Len(cws)

(***************************************************************************)
(* Initial state                                                           *)
(***************************************************************************)

Hist0 ==
  [processed |-> <<>>,            \* the events the running sweep has processed
   calls |-> 0,                   \* calls that started a sweep on this engine
   ref |-> {},                    \* SpecIndex: keys added and not removed since
   seen |-> {},                   \* SpecIndex: keys ever added
   clean |-> TRUE]                \* SpecIndex: every add so far was of a new key,
                                  \* every remove of a key of ref

Init ==
  /\ wires = <<>>
  /\ next_id = 0
  /\ eng = "none"
  /\ events = <<>>
  /\ performed = FALSE
  /\ mode = "-"
  /\ pos = 0
  /\ data = <<>>
  /\ bst = Nil
  /\ count = 0
  /\ crossings = <<>>
  /\ ret = NoRet
  /\ traced = FALSE
  /\ trace = <<>>
  /\ hist = Hist0

(***************************************************************************)
(* WireLayer.add_wire                                                      *)
(***************************************************************************)
HasName(ws, name) == \E i \in 1 .. Len(ws) : ws[i].name = name

\* the call did not reach Wire(): no coordinates were looked at
NoArgs == <<>>

\* an add_wire without the test of the name: the new wire takes the place of
\* the wire that had the name
add_wire_replace(name) ==
  /\ eng = "none"
  /\ next_id < MaxId
  /\ next_id' = next_id + 1
  /\ \E x1, y1, x2, y2 \in Coords :
       LET w == Wire_init(name, x1, y1, x2, y2, next_id)
       IN  IF ~(is_horizontal(w) \/ is_vertical(w))
           THEN /\ ret' = [op |-> "add_wire", status |-> "ValueError", val |-> "geometry",
                           name |-> name, args |-> <<x1, y1, x2, y2>>]
                /\ UNCHANGED wires
           ELSE /\ ret' = [op |-> "add_wire", status |-> "returned", val |-> name,
                           name |-> name, args |-> <<x1, y1, x2, y2>>]
                /\ wires' = IF HasName(wires, name)
                            THEN [i \in 1 .. Len(wires) |->
                                    IF wires[i].name = name THEN w ELSE wires[i]]
                            ELSE Append(wires, w)
  /\ UNCHANGED <<eng, events, performed, mode, pos, data, bst, count, crossings,
                 traced, trace, hist>>

\* the layer is built before a verifier is constructed over it.  The test of
\* the name comes first and does not look at the coordinates, so they are
\* drawn only on the branch that constructs the Wire
add_wire(name) ==
  /\ eng = "none"
  /\ IF HasName(wires, name)
     THEN /\ ret' = [op |-> "add_wire", status |-> "ValueError", val |-> "name",
                     name |-> name, args |-> NoArgs]
          /\ UNCHANGED <<wires, next_id>>
     ELSE /\ next_id < MaxId
          /\ next_id' = next_id + 1
          /\ \E x1, y1, x2, y2 \in Coords :
               LET w == Wire_init(name, x1, y1, x2, y2, next_id)
               IN  IF ~(is_horizontal(w) \/ is_vertical(w))
                   THEN /\ ret' = [op |-> "add_wire", status |-> "ValueError", val |-> "geometry",
                                   name |-> name, args |-> <<x1, y1, x2, y2>>]
                        /\ UNCHANGED wires
                   ELSE /\ ret' = [op |-> "add_wire", status |-> "returned", val |-> name,
                                   name |-> name, args |-> <<x1, y1, x2, y2>>]
                        /\ wires' = Append(wires, w)
  /\ UNCHANGED <<eng, events, performed, mode, pos, data, bst, count, crossings,
                 traced, trace, hist>>

(***************************************************************************)
(* WireLayer.from_file                                                     *)
(***************************************************************************)
\* the wire lines of the files read: horizontal wires that start at x = 0 and
\* vertical wires that span every y
WireLines ==
  {<<0, y, x2, y>> : y \in Coords, x2 \in Coords}
    \cup {<<x, 0, x, MaxCoord>> : x \in Coords}

\* a file has one wire line per name of NameOrder, in that order, and 'done'
Files == [1 .. Len(NameOrder) -> WireLines]

\* the add_wire calls of from_file on the lines from the i-th on; an exception
\* of add_wire ends from_file and no layer is returned
RECURSIVE ReadLines(_, _, _, _)
ReadLines(file, i, ws, id) ==
  IF i > Len(file) THEN [status |-> "returned", wires |-> ws, next_id |-> id]
  ELSE IF HasName(ws, NameOrder[i])
       THEN [status |-> "ValueError", wires |-> <<>>, next_id |-> id]
       ELSE LET w == Wire_init(NameOrder[i], file[i][1], file[i][2], file[i][3],
                               file[i][4], id)
            IN  IF ~(is_horizontal(w) \/ is_vertical(w))
                THEN [status |-> "ValueError", wires |-> <<>>, next_id |-> id + 1]
                ELSE ReadLines(file, i + 1, Append(ws, w), id + 1)

\* layer = WireLayer.from_file(sys.stdin), the first statement of the
\* command-line controller
from_file ==
  /\ eng = "none" /\ wires = <<>> /\ next_id = 0
  /\ \E file \in Files :
       LET r == ReadLines(file, 1, <<>>, 0)
       IN  /\ wires' = r.wires
           /\ next_id' = r.next_id
           /\ ret' = [op |-> "from_file", status |-> r.status, val |-> Len(r.wires)]
  /\ UNCHANGED <<eng, events, performed, mode, pos, data, bst, count, crossings,
                 traced, trace, hist>>

(***************************************************************************)
(* CrossVerifier                                                           *)
(***************************************************************************)
\* CrossVerifier(layer): min() of no wires raises ValueError and no verifier
\* comes to exist; otherwise a fresh verifier replaces the previous one
CrossVerifier_init ==
  /\ eng \in {"none", "new", "done", "raised"}
  /\ IF wires = <<>>
     THEN /\ ret' = [op |-> "CrossVerifier", status |-> "ValueError", val |-> "min"]
          /\ UNCHANGED <<eng, events, performed, mode, pos, data, bst, count, crossings,
                         traced, trace, hist>>
     ELSE /\ eng' = "new"
          /\ events' = SortedEvents(wires)
          /\ performed' = FALSE
          /\ mode' = "-"
          /\ pos' = 0
          /\ data' = <<>>
          /\ bst' = Nil
          /\ count' = 0
          /\ crossings' = <<>>
          /\ traced' = FALSE
          /\ trace' = <<>>
          /\ ret' = [op |-> "CrossVerifier", status |-> "returned", val |-> "verifier"]
          /\ hist' = [hist EXCEPT !.processed = <<>>, !.calls = 0]
  /\ UNCHANGED <<wires, next_id>>

\* TracedCrossVerifier(layer): CrossVerifier.__init__, then the trace is
\* created and the index and the result set are replaced by traced ones
TracedCrossVerifier_init ==
  /\ eng \in {"none", "new", "done", "raised"}
  /\ IF wires = <<>>
     THEN /\ ret' = [op |-> "CrossVerifier", status |-> "ValueError", val |-> "min"]
          /\ UNCHANGED <<eng, events, performed, mode, pos, data, bst, count, crossings,
                         traced, trace, hist>>
     ELSE /\ eng' = "new"
          /\ events' = SortedEvents(wires)
          /\ performed' = FALSE
          /\ mode' = "-"
          /\ pos' = 0
          /\ data' = <<>>
          /\ bst' = Nil
          /\ count' = 0
          /\ crossings' = <<>>
          /\ traced' = TRUE
          /\ trace' = <<>>
          /\ ret' = [op |-> "CrossVerifier", status |-> "returned", val |-> "verifier"]
          /\ hist' = [hist EXCEPT !.processed = <<>>, !.calls = 0]
  /\ UNCHANGED <<wires, next_id>>

\* a verifier that does not look at self.performed
StartSweep_reusable(op, m) ==
  /\ eng \in {"new", "done", "raised"}
  /\ performed' = TRUE
  /\ eng' = "run"
  /\ mode' = m
  /\ pos' = 1
  /\ count' = 0
  /\ ret' = [op |-> op, status |-> "running", val |-> 0]
  /\ hist' = [hist EXCEPT !.calls = @ + 1]
  /\ UNCHANGED <<wires, next_id, events, data, bst, crossings, traced, trace>>

\* the head of count_crossings / wire_crossings up to the call of
\* _compute_crossings; the bare raise is a RuntimeError
StartSweep(op, m) ==
  /\ eng \in {"new", "done", "raised"}
  /\ IF performed
     THEN /\ ret' = [op |-> op, status |-> "RuntimeError", val |-> 0]
          /\ UNCHANGED <<eng, performed, mode, pos, count, hist>>
     ELSE /\ performed' = TRUE
          /\ eng' = "run"
          /\ mode' = m
          /\ pos' = 1
          /\ count' = 0
          /\ ret' = [op |-> op, status |-> "running", val |-> 0]
          /\ hist' = [hist EXCEPT !.calls = @ + 1]
  /\ UNCHANGED <<wires, next_id, events, data, bst, crossings, traced, trace>>

count_crossings == StartSweep("count_crossings", "count")

wire_crossings == StartSweep("wire_crossings", "list")

\* one iteration of the loop of _compute_crossings on an 'add' event
EventAdd ==
  /\ eng = "run" /\ pos <= Len(events) /\ events[pos].type = "add"
  /\ LET wire == events[pos].wire
         key == KeyWirePair(wire.y1, wire)
     IN  IF traced
         THEN LET r == TracedRangeIndex_add(trace, data, bst, key)
              IN  data' = r.data /\ bst' = r.bst /\ trace' = r.trace
         ELSE LET r == RangeIndex_add(data, bst, key)
              IN  data' = r.data /\ bst' = r.bst /\ UNCHANGED trace
  /\ pos' = pos + 1
  /\ ret' = [op |-> "add", status |-> "returned", val |-> 0]
  /\ hist' = [hist EXCEPT !.processed = Append(@, events[pos])]
  /\ UNCHANGED <<wires, next_id, eng, events, performed, mode, count, crossings, traced>>

\* one iteration on a 'delete' event; an exception of remove ends the sweep
EventDelete ==
  /\ eng = "run" /\ pos <= Len(events) /\ events[pos].type = "delete"
  /\ LET wire == events[pos].wire
         key == KeyWirePair(wire.y1, wire)
         r == IF traced
              THEN TracedRangeIndex_remove(trace, data, bst, key)
              ELSE [trace |-> trace] @@ RangeIndex_remove(data, bst, key)
     IN  /\ data' = r.data
         /\ bst' = r.bst
         /\ trace' = r.trace
         /\ ret' = [op |-> "delete", status |-> r.status, val |-> 0]
         /\ IF r.status = "returned"
            THEN pos' = pos + 1 /\ eng' = eng
            ELSE pos' = pos /\ eng' = "raised"
  /\ hist' = [hist EXCEPT !.processed = Append(@, events[pos])]
  /\ UNCHANGED <<wires, next_id, events, performed, mode, count, crossings, traced>>

\* one iteration on a 'query' event
EventQuery ==
  /\ eng = "run" /\ pos <= Len(events) /\ events[pos].type = "query"
  /\ LET wire == events[pos].wire
         tr1 == trace_sweep_line(traced, trace, events[pos].x)
         l == IF traced
              THEN TracedRangeIndex_list(tr1, data, KeyWirePairL(wire.y1),
                                         KeyWirePairH(wire.y2))
              ELSE [trace |-> tr1,
                    val |-> RangeIndex_list(data, KeyWirePairL(wire.y1),
                                            KeyWirePairH(wire.y2))]
         listed == l.val
         cross_wires == CrossWires(wire, listed)
         a == IF traced
              THEN TracedAddCrossings(l.trace, crossings, wire, cross_wires)
              ELSE [trace |-> l.trace,
                    crossings |-> AddCrossings(crossings, wire, cross_wires)]
     IN  /\ ret' = [op |-> "query", status |-> "returned", val |-> listed,
                     wire |-> wire, x |-> events[pos].x]
         /\ IF mode = "count"
            THEN /\ count' = CountResult(count, cross_wires)
                 /\ trace' = l.trace
                 /\ UNCHANGED crossings
            ELSE /\ crossings' = a.crossings
                 /\ trace' = a.trace
                 /\ UNCHANGED count
  /\ pos' = pos + 1
  /\ hist' = [hist EXCEPT !.processed = Append(@, events[pos])]
  /\ UNCHANGED <<wires, next_id, eng, events, performed, mode, data, bst, traced>>

\* a loop that expects one event more than the list holds
SweepReturn_one_more ==
  /\ eng = "run" /\ pos > Len(events) + 1
  /\ eng' = "done"
  /\ IF mode = "count"
     THEN /\ ret' = [op |-> "count_crossings", status |-> "returned", val |-> count]
     ELSE /\ ret' = [op |-> "wire_crossings", status |-> "returned", val |-> crossings]
  /\ UNCHANGED <<wires, next_id, events, performed, mode, pos, data, bst, count, crossings,
                 traced, trace, hist>>

\* the loop is over: return result
SweepReturn ==
  /\ eng = "run" /\ pos > Len(events)
  /\ eng' = "done"
  /\ IF mode = "count"
     THEN /\ ret' = [op |-> "count_crossings", status |-> "returned", val |-> count]
     ELSE /\ ret' = [op |-> "wire_crossings", status |-> "returned", val |-> crossings]
  /\ UNCHANGED <<wires, next_id, events, performed, mode, pos, data, bst, count, crossings,
                 traced, trace, hist>>

Next ==
  \/ \E name \in Names : add_wire(name)
  \/ CrossVerifier_init
  \/ count_crossings
  \/ wire_crossings
  \/ EventAdd
  \/ EventDelete
  \/ EventQuery
  \/ SweepReturn

Spec == Init /\ [][Next]_vars

(***************************************************************************)
(* SpecTraced: the layer is swept by TracedCrossVerifiers                  *)
(***************************************************************************)
NextTraced ==
  \/ \E name \in Names : add_wire(name)
  \/ TracedCrossVerifier_init
  \/ count_crossings
  \/ wire_crossings
  \/ EventAdd
  \/ EventDelete
  \/ EventQuery
  \/ SweepReturn

SpecTraced == Init /\ [][NextTraced]_vars

(***************************************************************************)
(* SpecSweep: the command-line controller on a file of four wires          *)
(***************************************************************************)
NextSweep ==
  \/ from_file
  \/ CrossVerifier_init
  \/ count_crossings
  \/ wire_crossings
  \/ EventAdd
  \/ EventDelete
  \/ EventQuery
  \/ SweepReturn

SpecSweep == Init /\ [][NextSweep]_vars

\* SpecSweepFair: once count_crossings or wire_crossings is called, the for
\* loop of _compute_crossings and its return statement run without waiting for
\* anything; reading the file, constructing a verifier and calling it are up
\* to the caller and carry no fairness.  Each of the four steps changes pos or
\* eng, so the subscript <<eng, pos>> asks for the same steps as vars would
SpecSweepFair ==
  /\ SpecSweep
  /\ WF_<<eng, pos>>(EventAdd)
  /\ WF_<<eng, pos>>(EventDelete)
  /\ WF_<<eng, pos>>(EventQuery)
  /\ WF_<<eng, pos>>(SweepReturn)

(***************************************************************************)
(* SpecIndex: a RangeIndex driven directly                                 *)
(***************************************************************************)
\* the key the sweep would build for a horizontal wire at height y
IndexKey(y, id) == KeyWirePair(y, Wire_init("a", 0, y, 1, y, id))
IndexKeys == {IndexKey(y, id) : y \in 0 .. MaxKey, id \in 0 .. MaxWid}

IdxAdd(key) ==
  /\ Len(data) < MaxData
  /\ LET r == RangeIndex_add(data, bst, key)
     IN  /\ data' = r.data
         /\ bst' = r.bst
  /\ ret' = [op |-> "add", status |-> "returned", val |-> key,
             was_present |-> key \in hist.ref, was_clean |-> hist.clean,
             changed |-> TRUE]
  /\ hist' = [hist EXCEPT !.ref = @ \cup {key}, !.seen = @ \cup {key},
                          !.clean = @ /\ key \notin hist.seen]
  /\ UNCHANGED <<wires, next_id, eng, events, performed, mode, pos, count, crossings,
                 traced, trace>>

\* RangeIndex.add(None)
IdxAddNone ==
  /\ ret' = [op |-> "add", status |-> "ValueError", val |-> 0,
             was_present |-> FALSE, was_clean |-> hist.clean, changed |-> FALSE]
  /\ UNCHANGED <<wires, next_id, eng, events, performed, mode, pos, data, bst,
                 count, crossings, traced, trace, hist>>

IdxRemove(key) ==
  /\ LET r == RangeIndex_remove(data, bst, key)
     IN  /\ data' = r.data
         /\ bst' = r.bst
         /\ ret' = [op |-> "remove", status |-> r.status, val |-> key,
                    was_present |-> key \in hist.ref, was_clean |-> hist.clean,
                    changed |-> (r.data # data \/ r.bst # bst)]
  /\ hist' = [hist EXCEPT !.ref = @ \ {key}, !.clean = @ /\ key \in hist.ref]
  /\ UNCHANGED <<wires, next_id, eng, events, performed, mode, pos, count, crossings,
                 traced, trace>>

IdxList(first_key, last_key) ==
  /\ ret' = [op |-> "list", status |-> "returned",
             val |-> RangeIndex_list(data, first_key, last_key),
             lo |-> first_key, hi |-> last_key]
  /\ UNCHANGED <<wires, next_id, eng, events, performed, mode, pos, data, bst,
                 count, crossings, traced, trace, hist>>

IdxCount(first_key, last_key) ==
  /\ ret' = [op |-> "count", status |-> "returned",
             val |-> RangeIndex_count(data, first_key, last_key),
             lo |-> first_key, hi |-> last_key]
  /\ UNCHANGED <<wires, next_id, eng, events, performed, mode, pos, data, bst,
                 count, crossings, traced, trace, hist>>

NextIndex ==
  \/ \E key \in IndexKeys : IdxAdd(key)
  \/ IdxAddNone
  \/ \E key \in IndexKeys : IdxRemove(key)
  \/ \E y1, y2 \in 0 .. MaxKey : IdxList(KeyWirePairL(y1), KeyWirePairH(y2))
  \/ \E y1, y2 \in 0 .. MaxKey : IdxCount(KeyWirePairL(y1), KeyWirePairH(y2))

SpecIndex == Init /\ [][NextIndex]_vars

(***************************************************************************)
(* SpecRange: a RangeIndex that is added to and listed                     *)
(***************************************************************************)
NextRange ==
  \/ Len(data) < MaxRange /\ \E key \in IndexKeys : IdxAdd(key)
  \/ \E y1, y2 \in 0 .. MaxKey : IdxList(KeyWirePairL(y1), KeyWirePairH(y2))

SpecRange == Init /\ [][NextRange]_vars

(***************************************************************************)
(* Properties of the sweep (checked under Spec)                            *)
(***************************************************************************)
WireSet == {wires[i] : i \in 1 .. Len(wires)}
SeqSet(q) == {q[i] : i \in 1 .. Len(q)}

\* the all-pairs reference: the name pairs of the distinct wires that intersect
AllPairs ==
  {sorted2(p[1].name, p[2].name) :
     p \in {q \in WireSet \X WireSet : q[1] # q[2] /\ Wire_intersects(q[1], q[2])}}

\* C1: a finished wire_crossings() sweep has recorded exactly the pairs of
\* distinct wires that intersect, each of them once, and no sweep ends in an
\* exception
C1_CrossingsAreAllPairs ==
  /\ eng # "raised"
  /\ (eng = "done" /\ mode = "list") =>
       /\ SeqSet(crossings) = AllPairs
       /\ Len(crossings) = Cardinality(AllPairs)

\* two pairs were found, one of them where the vertical wire stands on the last
\* x of the horizontal wire and the horizontal wire on the top end of the
\* vertical one
C1_Witness ==
  /\ eng = "done" /\ mode = "list" /\ Len(crossings) = 2
  /\ \E h, v \in WireSet :
       /\ ~is_horizontal(v) /\ is_horizontal(h) /\ h.x1 < h.x2
       /\ v.x1 = h.x2 /\ h.y1 = v.y2
       /\ sorted2(h.name, v.name) \in SeqSet(crossings)

\* the horizontal wires whose x-span contains x and whose y lies in the y-span of v
ActiveInRange(v, x) ==
  {h \in WireSet : is_horizontal(h) /\ h.x1 <= x /\ x <= h.x2 /\ v.y1 <= h.y1 /\ h.y1 <= v.y2}

\* C2: the range query of a Query event of the vertical wire V at x returns
\* exactly the horizontal wires H with H.x1 <= x <= H.x2 and V.y1 <= H.y1 <= V.y2
C2_QuerySeesActiveWires ==
  ret.op = "query" =>
    /\ {k.wire : k \in SeqSet(ret.val)} = ActiveInRange(ret.wire, ret.x)
    /\ Len(ret.val) = Cardinality(ActiveInRange(ret.wire, ret.x))

\* the phase ranks of the event types
PhaseRank(type) == CASE type = "add" -> 0 [] type = "query" -> 1 [] type = "delete" -> 2

EventsOf(q, wire, type, x) ==
  {i \in 1 .. Len(q) : q[i].wire = wire /\ q[i].type = type /\ q[i].x = x}
EventsOfType(q, wire, type) ==
  {i \in 1 .. Len(q) : q[i].wire = wire /\ q[i].type = type}

\* C3: the event list holds one Add at x1 and one Delete at x2 for every
\* horizontal wire and one Query at x1 for every other (vertical) wire, and
\* nothing else; the sweep processes it front to back, in non-decreasing x and,
\* at equal x, every Add before every Query before every Delete
C3_EventOrder ==
  eng \in {"new", "run", "done"} =>
    /\ \A w \in WireSet :
         IF is_horizontal(w)
         THEN /\ Cardinality(EventsOf(events, w, "add", w.x1)) = 1
              /\ Cardinality(EventsOfType(events, w, "add")) = 1
              /\ Cardinality(EventsOf(events, w, "delete", w.x2)) = 1
              /\ Cardinality(EventsOfType(events, w, "delete")) = 1
              /\ EventsOfType(events, w, "query") = {}
         ELSE /\ Cardinality(EventsOf(events, w, "query", w.x1)) = 1
              /\ Cardinality(EventsOfType(events, w, "query")) = 1
              /\ EventsOfType(events, w, "add") = {}
              /\ EventsOfType(events, w, "delete") = {}
    /\ \A i \in 1 .. Len(events) : events[i].wire \in WireSet
    /\ Len(hist.processed) <= Len(events)
    /\ \A i \in 1 .. Len(hist.processed) : hist.processed[i] = events[i]
    /\ eng = "done" => Len(hist.processed) = Len(events)
    /\ \A i, j \in 1 .. Len(hist.processed) :
         i < j =>
           \/ hist.processed[i].x < hist.processed[j].x
           \/ /\ hist.processed[i].x = hist.processed[j].x
              /\ PhaseRank(hist.processed[i].type) <= PhaseRank(hist.processed[j].type)

\* a finished sweep that processed an Add, a Query and a Delete of three wires
\* at one x, and an event at a smaller x
C3_Witness ==
  /\ eng = "done"
  /\ \E i, j, k, l \in 1 .. Len(hist.processed) :
       /\ hist.processed[i].type = "add" /\ hist.processed[j].type = "query"
       /\ hist.processed[k].type = "delete"
       /\ hist.processed[i].x = hist.processed[j].x
       /\ hist.processed[j].x = hist.processed[k].x
       /\ hist.processed[i].wire # hist.processed[k].wire
       /\ hist.processed[l].x < hist.processed[i].x

\* the number of crossing pairs of the layer
NumPairs == Cardinality(AllPairs)

\* C4: over one layer, the integer a finished count_crossings() sweep returns
\* and the number of pairs a finished wire_crossings() sweep has recorded are
\* the same number (both are the number of crossing pairs of the layer)
C4_CountEqualsListLength ==
  /\ (eng = "done" /\ mode = "count") => count = NumPairs
  /\ (eng = "done" /\ mode = "list") => Len(crossings) = NumPairs
  /\ (ret.op = "count_crossings" /\ ret.status = "returned") => ret.val = NumPairs
  /\ (ret.op = "wire_crossings" /\ ret.status = "returned") => Len(ret.val) = NumPairs

\* a count sweep returned 2: one query that met two horizontal wires
C4_Witness ==
  /\ ret.op = "count_crossings" /\ ret.status = "returned" /\ ret.val = 2
  /\ \E v \in WireSet : Cardinality({h \in WireSet : Wire_intersects(v, h)}) = 2

\* a step that is a call of count_crossings or wire_crossings
IsCall == ret'.op \in {"count_crossings", "wire_crossings"} /\ ret'.status # "returned"

\* C5: the first call of count_crossings or wire_crossings on a verifier starts
\* the sweep; every later call of either raises, and leaves the verifier, its
\* index and its results as they were; no verifier starts a second sweep
C5_SingleUse ==
  [][ /\ hist'.calls <= 1
      /\ (IsCall /\ ~performed) => (eng' = "run" /\ performed' /\ hist'.calls = 1)
      /\ (IsCall /\ performed) =>
            /\ ret'.status = "RuntimeError"
            /\ UNCHANGED <<eng, events, performed, mode, pos, data, bst, count,
                           crossings, traced, trace, hist>> ]_vars

\* after a finished count sweep, wire_crossings was called and raised
C5_Witness ==
  /\ eng = "done" /\ mode = "count" /\ hist.calls = 1
  /\ ret.op = "wire_crossings" /\ ret.status = "RuntimeError"
  /\ data # <<>>

\* C10: two constructed wires that share an orientation (both is_horizontal(),
\* or both is_vertical()) do not intersect
C10_SameOrientationNeverIntersects ==
  \A a, b \in WireSet :
    ((is_horizontal(a) /\ is_horizontal(b)) \/ (is_vertical(a) /\ is_vertical(b)))
      => ~Wire_intersects(a, b)

IsPrefix(p, q) == Len(p) <= Len(q) /\ \A i \in 1 .. Len(p) : p[i] = q[i]

\* the two names of a pair, the lexicographically smaller one first
Canonical(n1, n2) == IF NameRank(n1) <= NameRank(n2) THEN <<n1, n2>> ELSE <<n2, n1>>

\* the pairs one Query discovers: the query wire with every candidate it
\* intersects, in the order the range query returned the candidates
RECURSIVE DiscoveredPairs(_, _)
DiscoveredPairs(wire, kwps) ==
  IF kwps = <<>> THEN <<>>
  ELSE (IF Wire_intersects(wire, Head(kwps).wire)
        THEN <<Canonical(wire.name, Head(kwps).wire.name)>> ELSE <<>>)
       \o DiscoveredPairs(wire, Tail(kwps))

\* C15: the result list of a verifier is only appended to: a Query of a
\* wire_crossings() sweep appends the pairs it discovered, in the order the range
\* query returned the candidates, no other step of the sweep changes the list,
\* and every pair holds its two names in lexicographic order
C15_ResultListCanonical ==
  [][ /\ (ret'.op # "CrossVerifier") => IsPrefix(crossings, crossings')
      /\ (ret'.op = "query" /\ mode' = "list") =>
            crossings' = crossings \o DiscoveredPairs(ret'.wire, ret'.val)
      /\ (ret'.op # "CrossVerifier" /\ (ret'.op # "query" \/ mode' # "list")) =>
            crossings' = crossings
      /\ \A i \in 1 .. Len(crossings') :
            NameRank(crossings'[i][1]) <= NameRank(crossings'[i][2]) ]_vars

\* one Query discovered two pairs; the query wire is named first in one and
\* second in the other, and the list is not in sorted order
C15_Witness ==
  /\ eng = "done" /\ mode = "list" /\ Len(crossings) = 2
  /\ ret.op = "wire_crossings"
  /\ crossings[1][1] = crossings[2][2]
  /\ NameRank(crossings[2][1]) < NameRank(crossings[1][1])

\* the named segments of the layer: names and coordinates, without the
\* object_id and without the position in the layer
Segments ==
  {[name |-> w.name, x1 |-> w.x1, y1 |-> w.y1, x2 |-> w.x2, y2 |-> w.y2] : w \in WireSet}

\* the crossing pairs of a set of named segments
SegmentPairs(G) ==
  {Canonical(p[1].name, p[2].name) :
     p \in {q \in G \X G : q[1] # q[2] /\ Wire_intersects(q[1], q[2])}}

\* C17: whatever the order the wires were added in and the object_ids they
\* drew, and however many verifiers ran over the layer before, a finished sweep
\* has the count and the set of pairs that the named segments of the layer
\* determine; no step of a verifier changes the layer
C17_ResultDependsOnSegmentsOnly ==
  [][ /\ (eng' # "none") => (wires' = wires /\ next_id' = next_id)
      /\ (eng' = "done" /\ mode' = "list") =>
            /\ SeqSet(crossings') = SegmentPairs(Segments')
            /\ Len(crossings') = Cardinality(SegmentPairs(Segments'))
      /\ (eng' = "done" /\ mode' = "count") =>
            count' = Cardinality(SegmentPairs(Segments')) ]_vars

\* a count sweep found a crossing in a layer whose wires were added in
\* descending order of their names, after a construction had failed, so that
\* the object_ids are neither in name order nor consecutive
C17_Witness ==
  /\ eng = "done" /\ mode = "count" /\ count >= 1
  /\ Len(wires) = 2
  /\ NameRank(wires[1].name) > NameRank(wires[2].name)
  /\ wires[2].object_id > wires[1].object_id + 1

(***************************************************************************)
(* Properties of the sentinels (checked under SpecRange)                   *)
(***************************************************************************)
\* C20: for every real key k and every y, KeyWirePairL(y) <= k iff k.key >= y
\* and k <= KeyWirePairH(y) iff k.key <= y, up to the largest wire_id; so
\* list(KeyWirePairL(y1), KeyWirePairH(y2)) returns a key of the index iff its
\* key lies in y1 .. y2, whatever its wire_id
C20_SentinelsBoundEveryRealKey ==
  /\ \A y, ky \in 0 .. MaxKey :
       \A id \in (0 .. MaxWid) \cup {1000000000 - 1} :
         /\ KWP_le(KeyWirePairL(y), IndexKey(ky, id)) <=> (ky >= y)
         /\ KWP_le(IndexKey(ky, id), KeyWirePairH(y)) <=> (ky <= y)
  /\ ret.op = "list" =>
       /\ \A k \in SeqSet(data) :
            (k \in SeqSet(ret.val)) <=> (ret.lo.key <= k.key /\ k.key <= ret.hi.key)
       /\ SeqSet(ret.val) \subseteq SeqSet(data)

\* a list over one y returned the keys of that y, the one with wire_id 0
\* included, and left out a key of the index that lies outside the range
C20_Witness ==
  /\ ret.op = "list" /\ ret.lo.key = ret.hi.key
  /\ \E k \in SeqSet(ret.val) : k.wire_id = 0
  /\ \E k \in SeqSet(ret.val) : k.wire_id = MaxWid
  /\ \E k \in SeqSet(data) : k.key # ret.lo.key

(***************************************************************************)
(* Properties of the index during a sweep (checked under SpecSweep)        *)
(***************************************************************************)
\* C19: no sweep raises: the key of every Add event is equal to no key the
\* index holds, the search of BSTree.remove finds the key of every Delete
\* event, and a finished sweep has processed every event
C19_SweepNeverInconsistent ==
  /\ eng # "raised"
  /\ (eng = "run" /\ pos <= Len(events)) =>
       LET key == KeyWirePair(events[pos].wire.y1, events[pos].wire)
       IN  /\ events[pos].type = "add" =>
                \A k \in SeqSet(data) \cup SeqSet(node_list(bst)) : ~KWP_eq(k, key)
           /\ events[pos].type = "delete" => BST_locate(bst, key)
  /\ eng = "done" => Len(hist.processed) = Len(events)

\* a sweep finished although its tree still holds a key: an earlier removal of
\* a node with two children, whose successor was its right child and had a
\* right child, left the successor's key in the tree twice
C19_Witness ==
  /\ eng = "done" /\ bst # Nil
  /\ Len(hist.processed) = Len(events) /\ Len(events) = 2 * Len(wires)

\* the wires of the layer that are swept as horizontal, and the others
NumHorizontal == Cardinality({i \in 1 .. Len(wires) : is_horizontal(wires[i])})
NumVertical == Cardinality({i \in 1 .. Len(wires) : ~is_horizontal(wires[i])})

\* C21: the event list of a verifier holds 2 * h + v events for a layer of h
\* horizontal and v vertical wires; a running sweep has processed the events
\* before its position, each once and in list order; every sweep that was
\* started finishes, and then it has processed all 2 * h + v events
C21_SweepTerminates ==
  /\ [](eng \in {"new", "run", "done"} =>
          /\ Len(events) = 2 * NumHorizontal + NumVertical
          /\ \A i, j \in 1 .. Len(events) : events[i] = events[j] => i = j
          /\ eng = "run" =>
               /\ pos \in 1 .. Len(events) + 1
               /\ Len(hist.processed) = pos - 1
          /\ \A i \in 1 .. Len(hist.processed) : hist.processed[i] = events[i]
          /\ eng = "done" =>
               /\ Len(hist.processed) = 2 * NumHorizontal + NumVertical
               /\ ret.status \in {"returned", "RuntimeError"})
  /\ (eng = "run") ~> (eng = "done")

\* a sweep over three horizontal wires and a vertical one has returned after
\* seven events
C21_Witness ==
  /\ eng = "done" /\ ret.status = "returned"
  /\ NumHorizontal = 3 /\ NumVertical = 1
  /\ Len(hist.processed) = 7

(***************************************************************************)
(* Properties of the traced verifier (checked under SpecTraced)            *)
(***************************************************************************)
\* what one event does to the index and the result list of a CrossVerifier
\* (not traced) in wire_crossings()
CrossVerifier_step(s, e) ==
  LET wire == e.wire
      key == KeyWirePair(wire.y1, wire)
  IN  CASE e.type = "add" ->
             [s EXCEPT !.data = RangeIndex_add(s.data, s.bst, key).data,
                       !.bst = RangeIndex_add(s.data, s.bst, key).bst]
        [] e.type = "delete" ->
             [s EXCEPT !.data = RangeIndex_remove(s.data, s.bst, key).data,
                       !.bst = RangeIndex_remove(s.data, s.bst, key).bst]
        [] e.type = "query" ->
             [s EXCEPT !.crossings =
                AddCrossings(@, wire,
                  CrossWires(wire, RangeIndex_list(s.data, KeyWirePairL(wire.y1),
                                                   KeyWirePairH(wire.y2))))]

\* C16: a TracedCrossVerifier starts with the index and the result list empty,
\* as a CrossVerifier does; every event of its sweep takes the index, and in
\* wire_crossings() the result list, to what the same event makes of them in a
\* CrossVerifier; no other step changes them; the trace is only appended to
C16_TracingIsPureObservation ==
  [][ traced' =>
        /\ (ret'.op = "CrossVerifier") =>
              (data' = <<>> /\ bst' = Nil /\ crossings' = <<>>)
        /\ (ret'.op \in {"add", "delete", "query"}) =>
              LET s == CrossVerifier_step(
                         [data |-> data, bst |-> bst, crossings |-> crossings],
                         events[pos])
              IN  /\ events' = events
                  /\ hist'.processed = Append(hist.processed, events[pos])
                  /\ data' = s.data
                  /\ bst' = s.bst
                  /\ crossings' = IF mode = "list" THEN s.crossings ELSE crossings
        /\ (ret'.op \notin {"CrossVerifier", "add", "delete", "query"}) =>
              (data' = data /\ bst' = bst /\ crossings' = crossings)
        /\ (ret'.op # "CrossVerifier") => IsPrefix(trace, trace') ]_vars

\* a traced wire_crossings() finished with two pairs; its trace holds the
\* sweep line, the index operations and the crossings
C16_Witness ==
  /\ traced /\ eng = "done" /\ mode = "list" /\ Len(crossings) = 2
  /\ \A t \in {"sweep", "add", "delete", "list", "crossing"} :
       \E i \in 1 .. Len(trace) : trace[i].type = t

(***************************************************************************)
(* Properties of Wire and WireLayer (checked under Spec)                   *)
(***************************************************************************)
\* C11: every wire that construction accepted satisfies exactly one of
\* x1 = x2 and y1 = y2 (a single point, with both, is not accepted)
C11_ExactlyOneOrientation ==
  \A w \in WireSet : (w.x1 = w.x2) # (w.y1 = w.y2)

\* a step that is a call of add_wire which went on to construct the Wire
IsConstruction == ret'.op = "add_wire" /\ ret'.args # NoArgs

\* C12: Wire construction with (x1, y1, x2, y2) raises if and only if neither
\* x1 = x2 nor y1 = y2; when it succeeds the layer gains the wire with
\* x1, x2 the min and max of the x given and y1, y2 the min and max of the y
\* given; when it raises the layer is unchanged
C12_ConstructionErrorIff ==
  [][ IsConstruction =>
        LET a == ret'.args
        IN  /\ (ret'.status = "ValueError") <=> (a[1] # a[3] /\ a[2] # a[4])
            /\ (ret'.status # "ValueError") => ret'.status = "returned"
            /\ (ret'.status = "returned") =>
                 /\ Len(wires') = Len(wires) + 1
                 /\ \A i \in 1 .. Len(wires) : wires'[i] = wires[i]
                 /\ LET w == wires'[Len(wires')]
                    IN  /\ w.name = ret'.name
                        /\ w.x1 <= w.x2 /\ w.y1 <= w.y2
                        /\ {w.x1, w.x2} = {a[1], a[3]}
                        /\ {w.y1, w.y2} = {a[2], a[4]}
            /\ (ret'.status = "ValueError") => wires' = wires ]_vars

\* after a construction that failed (it drew an object_id), a wire given with
\* its x in descending order was accepted and stored in ascending order
C12_Witness ==
  /\ ret.op = "add_wire" /\ ret.status = "returned"
  /\ ret.args[1] > ret.args[3]
  /\ wires[Len(wires)].x1 < wires[Len(wires)].x2
  /\ wires[Len(wires)].object_id > Len(wires) - 1

\* C13: for any two constructed wires A and B (those of differing orientation
\* in particular), A.intersects(B) = B.intersects(A)
C13_IntersectsSymmetric ==
  \A a, b \in WireSet : Wire_intersects(a, b) = Wire_intersects(b, a)

\* the layer holds a horizontal and a vertical wire that meet in an endpoint of
\* both, and a horizontal wire and a wire that is not horizontal which do not
\* intersect
C13_Witness ==
  /\ \E h, v \in WireSet :
       /\ is_horizontal(h) /\ ~is_vertical(h) /\ is_vertical(v) /\ ~is_horizontal(v)
       /\ Wire_intersects(h, v) /\ Wire_intersects(v, h)
       /\ h.x2 = v.x1 /\ h.y1 = v.y2
  /\ \E h, v \in WireSet :
       /\ is_horizontal(h) /\ ~is_horizontal(v)
       /\ ~Wire_intersects(h, v) /\ ~Wire_intersects(v, h)

\* C14: add_wire with a name the layer holds raises and leaves the layer as it
\* was; the layer never holds two wires of one name
C14_DuplicateNameRejected ==
  [][ /\ (ret'.op = "add_wire" /\ HasName(wires, ret'.name)) =>
           /\ ret'.status = "ValueError"
           /\ wires' = wires
      /\ \A i, j \in 1 .. Len(wires') : wires'[i].name = wires'[j].name => i = j ]_vars

\* add_wire was called with a name of a layer of two wires and raised
C14_Witness ==
  /\ ret.op = "add_wire" /\ ret.status = "ValueError" /\ ret.args = NoArgs
  /\ HasName(wires, ret.name)
  /\ Len(wires) = 2

(***************************************************************************)
(* Properties of the range index (checked under SpecIndex)                 *)
(***************************************************************************)
\* C6: as long as every add was of a new key and every remove of a key that
\* was in the index, list(lo, hi) returns exactly the keys added and not
\* removed since that lie in [lo, hi], each once
C6_ListMatchesReference ==
  (ret.op = "list" /\ hist.clean) =>
    /\ SeqSet(ret.val) = {k \in hist.ref : InRange(ret.lo, k, ret.hi)}
    /\ Len(ret.val) = Cardinality({k \in hist.ref : InRange(ret.lo, k, ret.hi)})

\* C7: list(lo, hi) returns its keys in ascending (key, wire_id) order
C7_ListAscending ==
  ret.op = "list" =>
    \A i, j \in 1 .. Len(ret.val) : i < j => KWP_le(ret.val[i], ret.val[j])

Occurrences(q, k) == Cardinality({i \in 1 .. Len(q) : KWP_eq(q[i], k)})

\* C8: an add of a key equal to one the index holds fails with a duplicate-key
\* error and the index keeps the key exactly once
C8_DuplicateAddRejected ==
  (ret.op = "add" /\ ret.was_clean /\ ret.was_present) =>
    /\ ret.status = "DuplicateKeyError"
    /\ ~ret.changed
    /\ Occurrences(data, ret.val) = 1

\* C9: a remove of a key the index does not hold (the empty index included)
\* reports "not found" (BSTree.remove returns False) without any other
\* failure, and leaves the index as it was
C9_AbsentRemoveNotFound ==
  (ret.op = "remove" /\ ret.was_clean /\ ~ret.was_present) =>
    /\ ret.status = "returned"
    /\ ~ret.changed

\* C18: as long as the keys added were pairwise distinct and each was removed
\* only while present, the in-order traversal of the tree is strictly ascending
\* and holds exactly the keys inserted and not removed since
C18_TreeValid ==
  hist.clean =>
    /\ \A i, j \in 1 .. Len(node_list(bst)) :
         i < j => KWP_lt(node_list(bst)[i], node_list(bst)[j])
    /\ SeqSet(node_list(bst)) = hist.ref

====
